---- MODULE Spec2Model ----
(***************************************************************************)
(* Model of the ingestion-and-cache pipeline of vehicle-defect-mvp         *)
(* (src/ingestion.py, src/database.py).  The store is the three SQLite     *)
(* tables with their UNIQUE constraints; every session.commit() of the     *)
(* pipeline is one atomic step, so concurrent ingest_vehicle calls         *)
(* interleave between commits and between network fetches.                 *)
(***************************************************************************)
EXTENDS Integers, Sequences, FiniteSets, TLC

VARIABLES
    vehicles,        \* rows of table "vehicles"
    complaints,      \* rows of table "complaints"
    recalls,         \* rows of table "recalls"
    tables,          \* names of the tables that exist in slp_defects.db
    upC,             \* JSON "results" served by complaintsByVehicle
    upR,             \* JSON "results" served by recallsByVehicle
    pc,              \* per call: position inside ingest_vehicle
    args,            \* per call: the (make, model, year) arguments
    vehicle,         \* per call: id of the Vehicle row resolved
    complaints_json, \* per call: "results" of the complaints response
    recalls_json,    \* per call: "results" of the recalls response
    idx,             \* per call: position of the for-loop in results
    inserted,        \* per call: the loop's local counter
    new_complaints,  \* per call: value returned by ingest_complaints
    ret,             \* per call: the returned pair
    err,             \* per call: the exception that left ingest_vehicle
    session,         \* per call: "none", "open" or "closed"
    added,           \* history: rows by which the call's own steps grew the store
    fetches,         \* history: the requests the call issued, with their status
    base,            \* history: the store when the call started
    after,           \* history: calls already terminated when the call started
    vin,             \* per call: the argument of ingest_vin
    decoded,         \* per call: what decode_vin came to, and the VINs it requested
    nraw,            \* normalizer harness: the raw record under test
    nout             \* normalizer harness: what the loop body made of it

vars == <<vehicles, complaints, recalls, tables, upC, upR, pc, args, vehicle,
          complaints_json, recalls_json, idx, inserted, new_complaints, ret, err, session, added, fetches,
          base, after, vin, decoded, nraw, nout>>

storeVars == <<vehicles, complaints, recalls>>
harnessVars == <<nraw, nout>>
vinVars == <<vin, decoded>>

----------------------------------------------------------------------------
(* Bounds *)

\* total number of records the two upstream endpoints serve
MaxUpstream == 2

\* the concurrent ingest_vehicle calls
Callers == {1, 2}

----------------------------------------------------------------------------
(* Python values.  A JSON / Python value is a tagged record; strings are   *)
(* sequences of one-character strings so that strip(), upper(), str() and  *)
(* int() are computed, not assumed.                                        *)

PyNone    == [t |-> "none", s |-> <<>>, n |-> 0, l |-> <<>>]
PyStr(x)  == [t |-> "str",  s |-> x,    n |-> 0, l |-> <<>>]
PyInt(k)  == [t |-> "int",  s |-> <<>>, n |-> k, l |-> <<>>]
PyBool(b) == [t |-> "bool", s |-> <<>>, n |-> IF b THEN 1 ELSE 0, l |-> <<>>]
\* a JSON array of strings
PyList(items) == [t |-> "list", s |-> <<>>, n |-> 0, l |-> items]
\* a datetime.date
PyDate(y, m, d) ==
    [t |-> "date", s |-> <<>>, n |-> (y * 10000) + (m * 100) + d, l |-> <<>>]

\* Python truthiness, as used by "x or y", "not x" and "if v"
Truthy(x) ==
    CASE x.t = "none" -> FALSE
      [] x.t = "str"  -> Len(x.s) > 0
      [] x.t = "int"  -> x.n # 0
      [] x.t = "bool" -> x.n = 1
      [] x.t = "list" -> Len(x.l) > 0
      [] OTHER        -> TRUE

\* the value of the Python expression "a or b"
PyOr(a, b) == IF Truthy(a) THEN a ELSE b

Whitespace == {" ", "\t", "\n"}
Digits == <<"0", "1", "2", "3", "4", "5", "6", "7", "8", "9">>
IsDigit(c) == \E i \in 1..10 : Digits[i] = c
DigitVal(c) == (CHOOSE i \in 1..10 : Digits[i] = c) - 1

RECURSIVE LStrip(_)
LStrip(s) == IF s # <<>> /\ Head(s) \in Whitespace THEN LStrip(Tail(s)) ELSE s

RECURSIVE RStrip(_)
RStrip(s) ==
    IF s # <<>> /\ s[Len(s)] \in Whitespace
    THEN RStrip(SubSeq(s, 1, Len(s) - 1))
    ELSE s

\* str.strip()
Strip(s) == RStrip(LStrip(s))

LowerChars == <<"a","b","c","d","e","f","g","h","i","j","k","l","m",
                "n","o","p","q","r","s","t","u","v","w","x","y","z">>
UpperChars == <<"A","B","C","D","E","F","G","H","I","J","K","L","M",
                "N","O","P","Q","R","S","T","U","V","W","X","Y","Z">>
UpperOf ==
    [c \in {LowerChars[i] : i \in 1..26} |->
        UpperChars[CHOOSE i \in 1..26 : LowerChars[i] = c]]
UpperChar(c) == IF c \in DOMAIN UpperOf THEN UpperOf[c] ELSE c

\* str.upper()
Upper(s) == [i \in 1..Len(s) |-> UpperChar(s[i])]

RECURSIVE NatToStr(_)
NatToStr(k) ==
    IF k < 10 THEN <<Digits[k + 1]>>
    ELSE Append(NatToStr(k \div 10), Digits[(k % 10) + 1])

\* sep.join(items)
RECURSIVE Join(_, _)
Join(items, sep) ==
    IF items = <<>> THEN <<>>
    ELSE IF Len(items) = 1 THEN items[1]
    ELSE items[1] \o sep \o Join(Tail(items), sep)

\* json.dumps of a list of strings
JsonDumps(items) ==
    <<"[">> \o Join([i \in 1..Len(items) |-> <<"\"">> \o items[i] \o <<"\"">>],
                    <<",", " ">>) \o <<"]">>

\* str(x)
PyStrOf(x) ==
    CASE x.t = "str"  -> x.s
      [] x.t = "int"  -> IF x.n < 0 THEN <<"-">> \o NatToStr(0 - x.n) ELSE NatToStr(x.n)
      [] x.t = "bool" -> IF x.n = 1 THEN <<"T","r","u","e">> ELSE <<"F","a","l","s","e">>
      [] x.t = "none" -> <<"N","o","n","e">>
      [] OTHER        -> JsonDumps(x.l)

RECURSIVE DigitsToNat(_)
DigitsToNat(s) ==
    IF s = <<>> THEN 0
    ELSE (DigitsToNat(SubSeq(s, 1, Len(s) - 1)) * 10) + DigitVal(s[Len(s)])

AllDigits(s) == s # <<>> /\ \A i \in 1..Len(s) : IsDigit(s[i])

\* outcome of evaluating an expression: a value, or an exception raised
Ok(v)      == [ok |-> TRUE,  v |-> v,      exc |-> "none"]
Raise(e)   == [ok |-> FALSE, v |-> PyNone, exc |-> e]

\* int(x): a string is trimmed and may carry a sign; anything that is not a
\* decimal literal is a ValueError, a list or dict a TypeError
PyIntOf(x) ==
    CASE x.t = "int"  -> Ok(PyInt(x.n))
      [] x.t = "bool" -> Ok(PyInt(x.n))
      [] x.t = "str"  ->
            LET b == Strip(x.s)
                neg == b # <<>> /\ Head(b) = "-"
                pos == b # <<>> /\ Head(b) = "+"
                d == IF neg \/ pos THEN Tail(b) ELSE b
            IN IF AllDigits(d)
               THEN Ok(PyInt(IF neg THEN 0 - DigitsToNat(d) ELSE DigitsToNat(d)))
               ELSE Raise("ValueError")
      [] OTHER        -> Raise("TypeError")

----------------------------------------------------------------------------
(* _parse_date: datetime.strptime over the three formats, then .date()     *)

FmtIsoDate     == <<"Y", "-", "m", "-", "d">>
FmtUsDate      == <<"m", "/", "d", "/", "Y">>
FmtIsoDateTime == <<"Y", "-", "m", "-", "d", "T", "H", ":", "M", ":", "S">>
DateFormats    == <<FmtIsoDate, FmtUsDate, FmtIsoDateTime>>

\* smallest and largest value a numeric directive accepts
DirLo(tok) == IF tok \in {"m", "d"} THEN 1 ELSE 0
DirHi(tok) ==
    CASE tok = "m" -> 12
      [] tok = "d" -> 31
      [] tok = "H" -> 23
      [] tok = "M" -> 59
      [] OTHER     -> 61

IsLeap(y) == (y % 4 = 0 /\ y % 100 # 0) \/ y % 400 = 0
DaysIn(y, m) ==
    CASE m \in {4, 6, 9, 11} -> 30
      [] m = 2               -> IF IsLeap(y) THEN 29 ELSE 28
      [] OTHER               -> 31

NoMatch == [ok |-> FALSE, Y |-> 0, m |-> 0, d |-> 0]

\* one strptime attempt: %Y is four digits, the other directives are two
\* digits when those form an accepted value and one digit otherwise
RECURSIVE MatchFmt(_, _, _)
MatchFmt(s, fmt, acc) ==
    IF fmt = <<>> THEN (IF s = <<>> THEN acc ELSE NoMatch)
    ELSE
      LET tok == Head(fmt) IN
      IF tok = "Y" THEN
          IF Len(s) >= 4 /\ AllDigits(SubSeq(s, 1, 4))
          THEN MatchFmt(SubSeq(s, 5, Len(s)), Tail(fmt),
                        [acc EXCEPT !.Y = DigitsToNat(SubSeq(s, 1, 4))])
          ELSE NoMatch
      ELSE IF tok \in {"m", "d", "H", "M", "S"} THEN
          LET two == Len(s) >= 2 /\ AllDigits(SubSeq(s, 1, 2))
                     /\ DigitsToNat(SubSeq(s, 1, 2)) >= DirLo(tok)
                     /\ DigitsToNat(SubSeq(s, 1, 2)) <= DirHi(tok)
              one == Len(s) >= 1 /\ IsDigit(s[1]) /\ DigitVal(s[1]) >= DirLo(tok)
              k   == IF two THEN 2 ELSE 1
              val == DigitsToNat(SubSeq(s, 1, k))
          IN IF two \/ one
             THEN MatchFmt(SubSeq(s, k + 1, Len(s)), Tail(fmt),
                           IF tok = "m" THEN [acc EXCEPT !.m = val]
                           ELSE IF tok = "d" THEN [acc EXCEPT !.d = val]
                           ELSE acc)
             ELSE NoMatch
      ELSE
          IF s # <<>> /\ Head(s) = tok
          THEN MatchFmt(Tail(s), Tail(fmt), acc)
          ELSE NoMatch

\* strptime(s, fmt).date() succeeds: the text matches and the day exists
Strptime(s, fmt) ==
    LET r == MatchFmt(s, fmt, [ok |-> TRUE, Y |-> 0, m |-> 0, d |-> 0])
    IN IF r.ok /\ r.Y >= 1 /\ r.d <= DaysIn(r.Y, r.m) THEN r ELSE NoMatch

\* _parse_date(s): falsy input gives None; a truthy non-string makes
\* strptime raise TypeError, which the "except ValueError" does not catch
ParseDate(x) ==
    IF ~Truthy(x) THEN Ok(PyNone)
    ELSE IF x.t # "str" THEN Raise("TypeError")
    ELSE
      LET hits == {i \in 1..Len(DateFormats) : Strptime(x.s, DateFormats[i]).ok}
      IN IF hits = {} THEN Ok(PyNone)
         ELSE LET i == CHOOSE j \in hits : \A k \in hits : j <= k
                  r == Strptime(x.s, DateFormats[i])
              IN Ok(PyDate(r.Y, r.m, r.d))

----------------------------------------------------------------------------
(* The loop bodies of ingest_complaints and ingest_recalls up to the row   *)
(* handed to session.add: r.get(key) is the field of the raw record, with  *)
(* None for an absent key.                                                 *)

NoComplaintRow ==
    [id |-> 0, vehicle_id |-> 0, odi_number |-> <<>>, manufacturer |-> PyNone,
     crash |-> PyNone, fire |-> PyNone, number_of_injuries |-> PyNone,
     number_of_deaths |-> PyNone, date_of_incident |-> PyNone,
     date_complaint_filed |-> PyNone, vin |-> PyNone, components |-> PyNone,
     summary |-> PyNone, products |-> PyNone]

NoRecallRow ==
    [id |-> 0, vehicle_id |-> 0, campaign_number |-> <<>>, recall_number |-> PyNone,
     report_received_date |-> PyNone, component |-> PyNone, summary |-> PyNone,
     consequence |-> PyNone, remedy |-> PyNone, notes |-> PyNone]

Skipped(none)      == [kind |-> "skip",  exc |-> "none", row |-> none]
Raised(e, none)    == [kind |-> "raise", exc |-> e,      row |-> none]
Built(row)         == [kind |-> "row",   exc |-> "none", row |-> row]

\* the identifier taken without .strip()
OdiOf_untrimmed(r) == PyStrOf(PyOr(r.odiNumber, PyStr(<<>>)))

\* odi = str(r.get("odiNumber") or "").strip()
OdiOf(r) == Strip(PyStrOf(PyOr(r.odiNumber, PyStr(<<>>))))

\* bool(v), which makes an absent flag False
FlagOf_default(v) == PyBool(Truthy(v))

\* bool(v) if v is not None else None
FlagOf(v) == IF v.t # "none" THEN PyBool(Truthy(v)) ELSE PyNone

\* int(v) if v is not None else None
CountOf(v) == IF v.t # "none" THEN PyIntOf(v) ELSE Ok(PyNone)

\* components: a list is joined with ", ", anything else stringified
ComponentsOf(v) ==
    IF v.t = "list" THEN PyStr(Join(v.l, <<",", " ">>))
    ELSE IF v.t # "none" THEN PyStr(PyStrOf(v)) ELSE PyNone

\* products: a list or dict is dumped as JSON, anything else stringified
ProductsOf(v) ==
    IF v.t = "list" THEN PyStr(JsonDumps(v.l))
    ELSE IF v.t # "none" THEN PyStr(PyStrOf(v)) ELSE PyNone

\* the first exception among the keyword arguments, in evaluation order
FirstRaise(outs) ==
    LET bad == {i \in 1..Len(outs) : ~outs[i].ok}
    IN IF bad = {} THEN "none"
       ELSE outs[CHOOSE i \in bad : \A j \in bad : i <= j].exc

NormalizeComplaint(r, vid) ==
    LET odi  == OdiOf(r)
        inj  == CountOf(r.numberOfInjuries)
        dth  == CountOf(r.numberOfDeaths)
        dinc == ParseDate(r.dateOfIncident)
        dfil == ParseDate(r.dateComplaintFiled)
        exc  == FirstRaise(<<inj, dth, dinc, dfil>>)
    IN IF odi = <<>> THEN Skipped(NoComplaintRow)
       ELSE IF exc # "none" THEN Raised(exc, NoComplaintRow)
       ELSE Built([id |-> 0, vehicle_id |-> vid, odi_number |-> odi,
                   manufacturer |-> r.manufacturer,
                   crash |-> FlagOf(r.crash), fire |-> FlagOf(r.fire),
                   number_of_injuries |-> inj.v, number_of_deaths |-> dth.v,
                   date_of_incident |-> dinc.v, date_complaint_filed |-> dfil.v,
                   vin |-> r.vin, components |-> ComponentsOf(r.components),
                   summary |-> r.summary, products |-> ProductsOf(r.products)])

\* the value whose .strip() is the campaign number
CampaignOf(r) ==
    PyOr(PyOr(PyOr(r.NHTSACampaignNumber, r.nhtsaCampaignNumber),
              r.campaignNumber), PyStr(<<>>))

\* the lookup without the misspelled key
ConsequenceOf_spelled(r) == PyOr(r.Consequence, r.consequence)

\* r.get("Conequence") or r.get("Consequence") or r.get("consequence")
ConsequenceOf(r) == PyOr(PyOr(r.Conequence, r.Consequence), r.consequence)

\* "a or b" as it is stored: the last operand when both are falsy
NormalizeRecall(r, vid) ==
    LET c    == CampaignOf(r)
        camp == Strip(c.s)
        rrd  == ParseDate(PyOr(r.ReportReceivedDate, r.reportReceivedDate))
    IN IF c.t # "str" THEN Raised("AttributeError", NoRecallRow)
       ELSE IF camp = <<>> THEN Skipped(NoRecallRow)
       ELSE IF ~rrd.ok THEN Raised(rrd.exc, NoRecallRow)
       ELSE Built([id |-> 0, vehicle_id |-> vid, campaign_number |-> camp,
                   recall_number |-> PyOr(r.RecallNumber, r.ManufacturerRecallNumber),
                   report_received_date |-> rrd.v,
                   component |-> PyOr(r.Component, r.component),
                   summary |-> PyOr(r.Summary, r.summary),
                   consequence |-> ConsequenceOf(r),
                   remedy |-> PyOr(r.Remedy, r.remedy),
                   notes |-> PyOr(r.Notes, r.notes)])

----------------------------------------------------------------------------
(* Inputs: the arguments of ingest_vehicle and the upstream JSON           *)

VehArgs ==
    { [make |-> <<"h","o","n","d","a">>, model |-> <<"a","c","c","o","r","d">>,
       year |-> 2021],
      [make |-> <<"H","O","N","D","A">>, model |-> <<"A","C","C","O","R","D">>,
       year |-> 2022] }

BlankComplaint ==
    [odiNumber |-> PyNone, manufacturer |-> PyNone, crash |-> PyNone,
     fire |-> PyNone, numberOfInjuries |-> PyNone, numberOfDeaths |-> PyNone,
     dateOfIncident |-> PyNone, dateComplaintFiled |-> PyNone, vin |-> PyNone,
     components |-> PyNone, summary |-> PyNone, products |-> PyNone]

BlankRecall ==
    [NHTSACampaignNumber |-> PyNone, nhtsaCampaignNumber |-> PyNone,
     campaignNumber |-> PyNone, RecallNumber |-> PyNone,
     ManufacturerRecallNumber |-> PyNone, ReportReceivedDate |-> PyNone,
     reportReceivedDate |-> PyNone, Component |-> PyNone, component |-> PyNone,
     Summary |-> PyNone, summary |-> PyNone, Conequence |-> PyNone,
     Consequence |-> PyNone, consequence |-> PyNone, Remedy |-> PyNone,
     remedy |-> PyNone, Notes |-> PyNone, notes |-> PyNone]

\* a numeric identifier with well-formed fields
RawC_Clean ==
    [BlankComplaint EXCEPT !.odiNumber = PyInt(7), !.crash = PyBool(TRUE),
        !.numberOfInjuries = PyInt(1),
        !.dateOfIncident = PyStr(<<"0","1","/","0","2","/","2","0","2","0">>),
        !.components = PyList(<< <<"E","N","G">>, <<"A","B","S">> >>)]
\* a padded identifier, an unparseable date, a count given as a string
RawC_BadDate ==
    [BlankComplaint EXCEPT !.odiNumber = PyStr(<<" ","8"," ">>),
        !.numberOfDeaths = PyStr(<<"2">>),
        !.dateOfIncident = PyStr(<<"n","/","a">>),
        !.products = PyList(<< <<"c","a","r">> >>)]
\* no identifier after trimming
RawC_NoId == [BlankComplaint EXCEPT !.odiNumber = PyStr(<<" ">>), !.fire = PyInt(0)]
\* an identifier and a non-numeric injury count
RawC_BadCount ==
    [BlankComplaint EXCEPT !.odiNumber = PyStr(<<"9">>),
        !.numberOfInjuries = PyStr(<<"x">>)]

RawComplaints == {RawC_Clean, RawC_BadDate, RawC_NoId, RawC_BadCount}

\* campaign number under the preferred key
RawR_First ==
    [BlankRecall EXCEPT !.NHTSACampaignNumber = PyStr(<<"R">>),
        !.ReportReceivedDate = PyStr(<<"2","0","2","0","-","0","2","-","2","9">>),
        !.Consequence = PyStr(<<"f","i","r","e">>)]
\* campaign number only under the least-preferred key
RawR_Last ==
    [BlankRecall EXCEPT !.campaignNumber = PyStr(<<"S"," ">>),
        !.NHTSACampaignNumber = PyStr(<<>>),
        !.reportReceivedDate = PyStr(<<"2","0","2","1","-","0","2","-","2","9">>)]
\* no campaign number under any key
RawR_NoId == [BlankRecall EXCEPT !.Summary = PyStr(<<"x">>)]
\* a campaign number and a date that is not a string
RawR_BadDate ==
    [BlankRecall EXCEPT !.nhtsaCampaignNumber = PyStr(<<"R">>),
        !.ReportReceivedDate = PyInt(20200102)]

RawRecalls == {RawR_First, RawR_Last, RawR_NoId, RawR_BadDate}

SeqsUpTo(S, n) == UNION {[1..k -> S] : k \in 0..n}

\* the pairs of result lists the two endpoints may serve
Upstreams ==
    {u \in SeqsUpTo(RawComplaints, MaxUpstream) \X SeqsUpTo(RawRecalls, MaxUpstream) :
        Len(u[1]) + Len(u[2]) <= MaxUpstream}

\* what requests.get may come back with for an endpoint serving body
HttpResponses(body) ==
    { [status |-> "200", results |-> body],
      [status |-> "503", results |-> <<>>],
      [status |-> "timeout", results |-> <<>>] }

FetchOk(json)  == [ok |-> TRUE,  exc |-> "none", json |-> json]
FetchRaise(e)  == [ok |-> FALSE, exc |-> e,      json |-> <<>>]

\* the fetch without raise_for_status(): an error body parses as no results
fetch_complaints_unchecked(resp) ==
    IF resp.status = "timeout" THEN FetchRaise("Timeout")
    ELSE FetchOk(resp.results)

\* requests.get(url, params, timeout=30); raise_for_status(); return resp.json()
fetch_complaints_by_vehicle(resp) ==
    IF resp.status = "timeout" THEN FetchRaise("Timeout")
    ELSE IF resp.status # "200" THEN FetchRaise("HTTPError")
    ELSE FetchOk(resp.results)

fetch_recalls_by_vehicle(resp) ==
    IF resp.status = "timeout" THEN FetchRaise("Timeout")
    ELSE IF resp.status # "200" THEN FetchRaise("HTTPError")
    ELSE FetchOk(resp.results)

----------------------------------------------------------------------------
(* decode_vin: the VIN check, the vPIC request and the validation of its   *)
(* first result                                                            *)

\* len(vin) != 17
VinLength == 17

NoDecode == [vin |-> <<>>, make |-> <<>>, model |-> <<>>, year |-> 0]
\* decode_vin has not been called
DecodeUnset       == [kind |-> "unset", exc |-> "none", d |-> NoDecode, sent |-> <<>>]
\* what a call of decode_vin comes to, with the requests it made to vPIC
DecodeNone(sent)     == [kind |-> "none",  exc |-> "none", d |-> NoDecode, sent |-> sent]
DecodeRaise(e, sent) == [kind |-> "raise", exc |-> e,      d |-> NoDecode, sent |-> sent]
DecodeDict(d, sent)  == [kind |-> "dict",  exc |-> "none", d |-> d,        sent |-> sent]

\* the argument taken as it is
VinOf_raw(arg) == PyOr(arg, PyStr(<<>>)).s

\* vin = (vin or "").strip().upper()
VinOf(arg) == Upper(Strip(PyOr(arg, PyStr(<<>>)).s))

\* (r.get(key) or "").strip(), which only a string or a falsy value allows
FieldOf(v) ==
    IF PyOr(v, PyStr(<<>>)).t = "str"
    THEN Ok(PyStr(Strip(PyOr(v, PyStr(<<>>)).s)))
    ELSE Raise("AttributeError")

\* the request decode_vin made and how it was answered
VpicCall(v, resp) ==
    <<[vin |-> v, status |-> resp.status, empty |-> resp.results = <<>>]>>

decode_vin(arg, resp) ==
    IF PyOr(arg, PyStr(<<>>)).t # "str" THEN DecodeRaise("AttributeError", <<>>)
    ELSE IF Len(VinOf(arg)) # VinLength THEN DecodeNone(<<>>)
    ELSE IF resp.status = "timeout" THEN DecodeRaise("Timeout", VpicCall(VinOf(arg), resp))
    ELSE IF resp.status # "200" THEN DecodeRaise("HTTPError", VpicCall(VinOf(arg), resp))
    ELSE IF resp.results = <<>> THEN DecodeNone(VpicCall(VinOf(arg), resp))
    ELSE LET r == resp.results[1]
             make == FieldOf(r.Make)
             model == FieldOf(r.Model)
             year == FieldOf(r.ModelYear)
         IN IF ~(make.ok /\ model.ok /\ year.ok)
            THEN DecodeRaise("AttributeError", VpicCall(VinOf(arg), resp))
            ELSE IF ~(make.v.s # <<>> /\ model.v.s # <<>> /\ AllDigits(year.v.s))
            THEN DecodeNone(VpicCall(VinOf(arg), resp))
            ELSE DecodeDict([vin |-> VinOf(arg), make |-> make.v.s,
                             model |-> model.v.s, year |-> DigitsToNat(year.v.s)],
                            VpicCall(VinOf(arg), resp))

\* "if not decoded" in ingest_vin
DecodeFailed_never(d) == FALSE

DecodeFailed(d) == d.kind = "none"

\* the arguments ingest_vin and its callers are given
Vin17 == <<"1","H","G","C","V","1","F","3","0","M","A","0","0","0","0","0","1">>
Vin17Lower == <<"1","h","g","c","v","1","f","3","0","m","a","0","0","0","0","0","1">>
VinInputs ==
    { PyNone,
      PyStr(SubSeq(Vin17, 1, 16)),
      PyStr(Vin17 \o <<"2">>),
      PyStr(<<" ">> \o SubSeq(Vin17, 1, 16)),
      PyStr(Vin17),
      PyStr(<<" ">> \o Vin17Lower \o <<"\n">>) }

\* the first element of "Results" of a DecodeVinValues response
VpicResult(make, model, year) == [Make |-> make, Model |-> model, ModelYear |-> year]
VpicHonda21 ==
    VpicResult(PyStr(<<" ","h","o","n","d","a">>), PyStr(<<"A","c","c","o","r","d"," ">>),
               PyStr(<<"2","0","2","1">>))
VpicHonda22 ==
    VpicResult(PyStr(<<"H","O","N","D","A">>), PyStr(<<"A","C","C","O","R","D">>),
               PyStr(<<" ","2","0","2","2">>))
VpicNoMake == VpicResult(PyNone, PyStr(<<"A","C","C","O","R","D">>), PyStr(<<"2","0","2","1">>))
VpicBlankModel ==
    VpicResult(PyStr(<<"H","O","N","D","A">>), PyStr(<<" ">>), PyStr(<<"2","0","2","1">>))
VpicYearZero ==
    VpicResult(PyStr(<<"H","O","N","D","A">>), PyStr(<<"A","C","C","O","R","D">>),
               PyStr(<<"0">>))
VpicYearText ==
    VpicResult(PyStr(<<"H","O","N","D","A">>), PyStr(<<"A","C","C","O","R","D">>),
               PyStr(<<"2","0","x","1">>))
VpicNoYear ==
    VpicResult(PyStr(<<"H","O","N","D","A">>), PyStr(<<"A","C","C","O","R","D">>), PyNone)

\* what requests.get may come back with for DecodeVinValues
VpicResponses ==
    { [status |-> "200", results |-> <<r>>] :
        r \in {VpicHonda21, VpicHonda22, VpicNoMake, VpicBlankModel, VpicYearZero,
               VpicYearText, VpicNoYear} }
    \cup { [status |-> "200", results |-> <<VpicHonda21, VpicNoMake>>],
           [status |-> "200", results |-> <<>>],
           [status |-> "503", results |-> <<>>],
           [status |-> "timeout", results |-> <<>>] }

----------------------------------------------------------------------------
(* The store: tables with their UNIQUE constraints (database.py)           *)

\* INTEGER PRIMARY KEY of a table nothing is deleted from
NextId(tbl) == Cardinality(tbl) + 1

\* uq_vehicle: UniqueConstraint("make", "model", "year")
uq_vehicle(tbl, row) ==
    \A v \in tbl : ~(v.make = row.make /\ v.model = row.model /\ v.year = row.year)

\* a complaint constraint scoped to the owning vehicle
uq_complaint_odi_per_vehicle(tbl, row) ==
    \A c \in tbl : ~(c.vehicle_id = row.vehicle_id /\ c.odi_number = row.odi_number)

\* the complaints table without its UNIQUE constraint
uq_complaint_odi_absent(tbl, row) == TRUE

\* uq_complaint_odi: UniqueConstraint("odi_number")
uq_complaint_odi(tbl, row) ==
    \A c \in tbl : c.odi_number # row.odi_number

\* a recall constraint on the campaign number alone
uq_campaign_global(tbl, row) ==
    \A c \in tbl : c.campaign_number # row.campaign_number

\* uq_vehicle_campaign: UniqueConstraint("vehicle_id", "campaign_number")
uq_vehicle_campaign(tbl, row) ==
    \A c \in tbl : ~(c.vehicle_id = row.vehicle_id
                     /\ c.campaign_number = row.campaign_number)

\* an INSERT that leaves the primary key as it was handed in
Insert_noid(tbl, row) == tbl \cup {row}

\* the table after a committed INSERT
Insert(tbl, row) == tbl \cup {[row EXCEPT !.id = NextId(tbl)]}

\* a conflict handler that overwrites the stored row with the new one
rollback_upsert(tbl, row) ==
    IF "odi_number" \in DOMAIN row
    THEN {c \in tbl : c.odi_number # row.odi_number}
         \cup {[row EXCEPT !.id = (CHOOSE c \in tbl : c.odi_number = row.odi_number).id]}
    ELSE {c \in tbl : ~(c.vehicle_id = row.vehicle_id
                         /\ c.campaign_number = row.campaign_number)}
         \cup {[row EXCEPT !.id = (CHOOSE c \in tbl :
                                      /\ c.vehicle_id = row.vehicle_id
                                      /\ c.campaign_number = row.campaign_number).id]}

\* except IntegrityError: session.rollback() discards the pending row
rollback(tbl, row) == tbl

\* the tables declared on Base.metadata
TableNames == {"vehicles", "complaints", "recalls"}

\* Base.metadata.create_all(engine): the tables that exist afterwards
create_all(existing) == existing \cup TableNames

\* an init_db that drops the tables before creating them
init_db_recreate(existing, name, tbl) == {}

\* the rows of table name after init_db(): a missing table is created empty,
\* an existing one is left alone
init_db(existing, name, tbl) == IF name \in existing THEN tbl ELSE {}

\* a close that undoes the work of the whole call
SessionClose_rollback(tbl, snapshot) == snapshot

\* session.close() in the finally clause: committed rows stay
SessionClose(tbl, snapshot) == tbl

\* the query comparing the arguments as they were given
get_vehicle_exact(tbl, make, model, year) ==
    {v \in tbl : v.make = make /\ v.model = model /\ v.year = year}

\* the query of get_or_create_vehicle and queries.get_vehicle
get_vehicle(tbl, make, model, year) ==
    {v \in tbl : v.make = Upper(make) /\ v.model = Upper(model) /\ v.year = year}

\* func.coalesce(column, 0)
Coalesce(v) == IF v.t = "none" THEN 0 ELSE v.n

\* func.sum(func.coalesce(column, 0)) over rows
RECURSIVE SumOver(_, _)
SumOver(rows, column) ==
    IF rows = {} THEN 0
    ELSE LET c == CHOOSE x \in rows : TRUE
         IN Coalesce(c[column]) + SumOver(rows \ {c}, column)

\* queries.severity_summary(session, vehicle_id)
severity_summary(tbl, vid) ==
    LET rows == {c \in tbl : c.vehicle_id = vid}
    IN [crashes |-> Cardinality({c \in rows : c.crash = PyBool(TRUE)}),
        fires |-> Cardinality({c \in rows : c.fire = PyBool(TRUE)}),
        injuries |-> SumOver(rows, "number_of_injuries"),
        deaths |-> SumOver(rows, "number_of_deaths")]

\* the stores a process may find in slp_defects.db when it starts
SeedVehicle ==
    [id |-> 1, make |-> <<"H","O","N","D","A">>,
     model |-> <<"A","C","C","O","R","D">>, year |-> 2021]
SeedStores == {{}, {SeedVehicle}}
\* the same with the schema found: a new file, a schema without the child
\* tables, the full schema
SeedDbs ==
    { [tables |-> {}, vehicles |-> {}],
      [tables |-> TableNames, vehicles |-> {}],
      [tables |-> {"vehicles"}, vehicles |-> {SeedVehicle}],
      [tables |-> TableNames, vehicles |-> {SeedVehicle}] }

----------------------------------------------------------------------------
(* ingest_vehicle, one action per commit or fetch                          *)

NoArgs == [make |-> <<>>, model |-> <<>>, year |-> 0]
NoRet  == <<-1, -1>>
Snapshot == [v |-> vehicles, c |-> complaints, r |-> recalls]

Terminated(p) == pc[p] \in {"done", "failed"}

NoHarness ==
    [which |-> "none", c |-> BlankComplaint, r |-> BlankRecall,
     outc |-> Skipped(NoComplaintRow), outr |-> Skipped(NoRecallRow)]

\* no call has been made yet
NoCalls ==
    /\ pc = [p \in Callers |-> "idle"]
    /\ args = [p \in Callers |-> NoArgs]
    /\ vehicle = [p \in Callers |-> 0]
    /\ complaints_json = [p \in Callers |-> <<>>]
    /\ recalls_json = [p \in Callers |-> <<>>]
    /\ idx = [p \in Callers |-> 0]
    /\ inserted = [p \in Callers |-> 0]
    /\ new_complaints = [p \in Callers |-> 0]
    /\ ret = [p \in Callers |-> NoRet]
    /\ err = [p \in Callers |-> "none"]
    /\ session = [p \in Callers |-> "none"]
    /\ added = [p \in Callers |-> <<0, 0>>]
    /\ fetches = [p \in Callers |-> <<>>]
    /\ base = [p \in Callers |-> [v |-> {}, c |-> {}, r |-> {}]]
    /\ after = [p \in Callers |-> {}]
    /\ vin = [p \in Callers |-> PyNone]
    /\ decoded = [p \in Callers |-> DecodeUnset]

Init ==
    /\ \E db \in SeedDbs : tables = db.tables /\ vehicles = db.vehicles
    /\ complaints = {}
    /\ recalls = {}
    /\ \E u \in Upstreams : upC = u[1] /\ upR = u[2]
    /\ NoCalls
    /\ nraw = NoHarness
    /\ nout = FALSE

\* the exception leaves ingest_vehicle with no finally clause to close the session
Propagate_noclose(p, e) ==
    /\ pc' = [pc EXCEPT ![p] = "failed"]
    /\ err' = [err EXCEPT ![p] = e]
    /\ session' = session
    /\ UNCHANGED storeVars

\* the exception leaves ingest_vehicle through the finally clause
Propagate(p, e) ==
    /\ pc' = [pc EXCEPT ![p] = "failed"]
    /\ err' = [err EXCEPT ![p] = e]
    /\ session' = [session EXCEPT ![p] = "closed"]
    /\ vehicles' = SessionClose(vehicles, base[p].v)
    /\ complaints' = SessionClose(complaints, base[p].c)
    /\ recalls' = SessionClose(recalls, base[p].r)

\* rows the step of call p added to complaints and recalls
Grew(p) ==
    added' = [added EXCEPT ![p] =
                <<added[p][1] + Cardinality(complaints') - Cardinality(complaints),
                  added[p][2] + Cardinality(recalls') - Cardinality(recalls)>>]

\* inserted += 1 placed after the try block
Counted_always(committed, k) == k + 1

\* inserted += 1 after a commit that did not raise IntegrityError
Counted(committed, k) == IF committed THEN k + 1 ELSE k

\* ingest_vin passing the decoded model as make and the make as model
CallArgs_swapped(p) ==
    IF pc[p] = "decoded"
    THEN {[make |-> decoded[p].d.model, model |-> decoded[p].d.make,
           year |-> decoded[p].d.year]}
    ELSE VehArgs

\* the arguments of ingest_vehicle: its caller's, or those ingest_vin passes
CallArgs(p) ==
    IF pc[p] = "decoded"
    THEN {[make |-> decoded[p].d.make, model |-> decoded[p].d.model,
           year |-> decoded[p].d.year]}
    ELSE VehArgs

\* init_db(); session = SessionLocal(); the query of get_or_create_vehicle
Start(p) ==
    /\ pc[p] \in {"idle", "decoded"}
    /\ \E a \in CallArgs(p) :
        LET found == get_vehicle(init_db(tables, "vehicles", vehicles),
                                 a.make, a.model, a.year) IN
        /\ tables' = create_all(tables)
        /\ args' = [args EXCEPT ![p] = a]
        /\ base' = [base EXCEPT ![p] = Snapshot]
        /\ after' = [after EXCEPT ![p] = {q \in Callers : Terminated(q)}]
        /\ IF Cardinality(found) > 1
           THEN /\ Propagate(p, "MultipleResultsFound")
                /\ UNCHANGED vehicle
           ELSE /\ vehicles' = init_db(tables, "vehicles", vehicles)
                /\ complaints' = init_db(tables, "complaints", complaints)
                /\ recalls' = init_db(tables, "recalls", recalls)
                /\ session' = [session EXCEPT ![p] = "open"]
                /\ err' = err
                /\ IF found = {}
                   THEN /\ pc' = [pc EXCEPT ![p] = "create"]
                        /\ UNCHANGED vehicle
                   ELSE /\ pc' = [pc EXCEPT ![p] = "fetchC"]
                        /\ vehicle' = [vehicle EXCEPT ![p] = (CHOOSE v \in found : TRUE).id]
    /\ UNCHANGED <<upC, upR, complaints_json, recalls_json, idx, inserted,
                   new_complaints, ret, added, fetches, harnessVars, vinVars>>

\* v = Vehicle(...); session.add(v); session.commit(); session.refresh(v)
CreateVehicle(p) ==
    /\ pc[p] = "create"
    /\ LET row == [id |-> 0, make |-> Upper(args[p].make),
                   model |-> Upper(args[p].model), year |-> args[p].year]
       IN IF uq_vehicle(vehicles, row)
          THEN /\ vehicles' = Insert(vehicles, row)
               /\ vehicle' = [vehicle EXCEPT ![p] = NextId(vehicles)]
               /\ pc' = [pc EXCEPT ![p] = "fetchC"]
               /\ UNCHANGED <<complaints, recalls, err, session>>
          ELSE /\ Propagate(p, "IntegrityError")
               /\ UNCHANGED vehicle
    /\ UNCHANGED <<upC, upR, args, complaints_json, recalls_json, idx, inserted,
                   new_complaints, ret, added, fetches, base, after, harnessVars, vinVars, tables>>

\* complaints_json = fetch_complaints_by_vehicle(make, model, year)
FetchComplaints(p) ==
    /\ pc[p] = "fetchC"
    /\ \E resp \in HttpResponses(upC) :
        LET out == fetch_complaints_by_vehicle(resp) IN
        /\ fetches' = [fetches EXCEPT ![p] =
                         Append(@, [api |-> "complaints", status |-> resp.status])]
        /\ IF ~out.ok
           THEN /\ Propagate(p, out.exc)
                /\ UNCHANGED <<complaints_json, idx, inserted, new_complaints>>
           ELSE /\ complaints_json' = [complaints_json EXCEPT ![p] = out.json]
                /\ idx' = [idx EXCEPT ![p] = 1]
                /\ inserted' = [inserted EXCEPT ![p] = 0]
                /\ new_complaints' = [new_complaints EXCEPT ![p] = 0]
                /\ pc' = [pc EXCEPT ![p] = IF out.json = <<>> THEN "fetchR" ELSE "insC"]
                /\ UNCHANGED <<err, session, storeVars>>
    /\ UNCHANGED <<upC, upR, args, vehicle, recalls_json, ret, added, base,
                   after, harnessVars, vinVars, tables>>

\* a loop that stops after its first record
LastRecord_first(i, json) == TRUE

\* the for-loop is at the last element of "results"
LastRecord(i, json) == i = Len(json)

\* one iteration of the for-loop of ingest_complaints
IngestComplaint(p) ==
    /\ pc[p] = "insC"
    /\ \E n \in {NormalizeComplaint(complaints_json[p][idx[p]], vehicle[p])} :
       \E committed \in {n.kind = "row" /\ uq_complaint_odi(complaints, n.row)} :
       \E k \in {IF n.kind = "row" THEN Counted(committed, inserted[p]) ELSE inserted[p]} :
       \E last \in {LastRecord(idx[p], complaints_json[p])} :
          IF n.kind = "raise"
          THEN /\ Propagate(p, n.exc)
               /\ UNCHANGED <<idx, inserted, new_complaints>>
          ELSE /\ complaints' = IF committed THEN Insert(complaints, n.row)
                                ELSE IF n.kind = "row" THEN rollback(complaints, n.row)
                                ELSE complaints
               /\ inserted' = [inserted EXCEPT ![p] = k]
               /\ idx' = [idx EXCEPT ![p] = @ + 1]
               /\ new_complaints' = [new_complaints EXCEPT ![p] = IF last THEN k ELSE @]
               /\ pc' = [pc EXCEPT ![p] = IF last THEN "fetchR" ELSE "insC"]
               /\ UNCHANGED <<vehicles, recalls, err, session>>
    /\ Grew(p)
    /\ UNCHANGED <<upC, upR, args, vehicle, complaints_json, recalls_json, ret,
                   fetches, base, after, harnessVars, vinVars, tables>>

\* recalls_json = fetch_recalls_by_vehicle(make, model, year)
FetchRecalls(p) ==
    /\ pc[p] = "fetchR"
    /\ \E resp \in HttpResponses(upR) :
        LET out == fetch_recalls_by_vehicle(resp) IN
        /\ fetches' = [fetches EXCEPT ![p] =
                         Append(@, [api |-> "recalls", status |-> resp.status])]
        /\ IF ~out.ok
           THEN /\ Propagate(p, out.exc)
                /\ UNCHANGED <<recalls_json, idx, inserted, ret>>
           ELSE /\ recalls_json' = [recalls_json EXCEPT ![p] = out.json]
                /\ idx' = [idx EXCEPT ![p] = 1]
                /\ inserted' = [inserted EXCEPT ![p] = 0]
                /\ IF out.json = <<>>
                   THEN /\ pc' = [pc EXCEPT ![p] = "done"]
                        /\ ret' = [ret EXCEPT ![p] = <<new_complaints[p], 0>>]
                        /\ session' = [session EXCEPT ![p] = "closed"]
                   ELSE /\ pc' = [pc EXCEPT ![p] = "insR"]
                        /\ UNCHANGED <<ret, session>>
                /\ vehicles' = IF out.json = <<>> THEN SessionClose(vehicles, base[p].v)
                               ELSE vehicles
                /\ complaints' = IF out.json = <<>> THEN SessionClose(complaints, base[p].c)
                                 ELSE complaints
                /\ recalls' = IF out.json = <<>> THEN SessionClose(recalls, base[p].r)
                              ELSE recalls
                /\ err' = err
    /\ UNCHANGED <<upC, upR, args, vehicle, complaints_json, new_complaints,
                   added, base, after, harnessVars, vinVars, tables>>

\* one iteration of the for-loop of ingest_recalls; after the last one
\* ingest_vehicle returns the pair and closes the session
IngestRecall(p) ==
    /\ pc[p] = "insR"
    /\ \E n \in {NormalizeRecall(recalls_json[p][idx[p]], vehicle[p])} :
       \E committed \in {n.kind = "row" /\ uq_vehicle_campaign(recalls, n.row)} :
       \E k \in {IF n.kind = "row" THEN Counted(committed, inserted[p]) ELSE inserted[p]} :
       \E last \in {LastRecord(idx[p], recalls_json[p])} :
       \E tbl \in {IF committed THEN Insert(recalls, n.row)
                   ELSE IF n.kind = "row" THEN rollback(recalls, n.row)
                   ELSE recalls} :
          IF n.kind = "raise"
          THEN /\ Propagate(p, n.exc)
               /\ UNCHANGED <<idx, inserted, ret>>
          ELSE /\ inserted' = [inserted EXCEPT ![p] = k]
               /\ idx' = [idx EXCEPT ![p] = @ + 1]
               /\ err' = err
               /\ IF last
                  THEN /\ pc' = [pc EXCEPT ![p] = "done"]
                       /\ ret' = [ret EXCEPT ![p] = <<new_complaints[p], k>>]
                       /\ session' = [session EXCEPT ![p] = "closed"]
                       /\ vehicles' = SessionClose(vehicles, base[p].v)
                       /\ complaints' = SessionClose(complaints, base[p].c)
                       /\ recalls' = SessionClose(tbl, base[p].r)
                  ELSE /\ pc' = [pc EXCEPT ![p] = "insR"]
                       /\ recalls' = tbl
                       /\ UNCHANGED <<ret, session, vehicles, complaints>>
    /\ Grew(p)
    /\ UNCHANGED <<upC, upR, args, vehicle, complaints_json, recalls_json,
                   new_complaints, fetches, base, after, harnessVars, vinVars, tables>>

\* decoded = decode_vin(vin); if not decoded: raise ValueError(...)
IngestVin(p) ==
    /\ pc[p] = "idle"
    /\ \E v \in VinInputs : \E resp \in VpicResponses :
       \E d \in {decode_vin(v, resp)} :
          /\ vin' = [vin EXCEPT ![p] = v]
          /\ decoded' = [decoded EXCEPT ![p] = d]
          /\ IF d.kind = "raise"
             THEN /\ pc' = [pc EXCEPT ![p] = "failed"]
                  /\ err' = [err EXCEPT ![p] = d.exc]
             ELSE IF DecodeFailed(d)
             THEN /\ pc' = [pc EXCEPT ![p] = "failed"]
                  /\ err' = [err EXCEPT ![p] = "ValueError"]
             ELSE /\ pc' = [pc EXCEPT ![p] = "decoded"]
                  /\ err' = err
    /\ UNCHANGED <<storeVars, upC, upR, args, vehicle, complaints_json,
                   recalls_json, idx, inserted, new_complaints, ret, session,
                   added, fetches, base, after, harnessVars, tables>>

Next ==
    \E p \in Callers :
        \/ Start(p)
        \/ CreateVehicle(p)
        \/ FetchComplaints(p)
        \/ IngestComplaint(p)
        \/ FetchRecalls(p)
        \/ IngestRecall(p)

Spec == Init /\ [][Next]_vars

----------------------------------------------------------------------------
(* Callers that come through ingest_vin as well as through ingest_vehicle  *)

\* the result lists the two endpoints serve while VINs are ingested
VinUpstreams == { <<<<>>, <<>>>>, <<<<RawC_Clean>>, <<RawR_First>>>> }

InitVin ==
    /\ vehicles \in SeedStores
    /\ tables = TableNames
    /\ complaints = {}
    /\ recalls = {}
    /\ \E u \in VinUpstreams : upC = u[1] /\ upR = u[2]
    /\ NoCalls
    /\ nraw = NoHarness
    /\ nout = FALSE

\* return decoded, new_complaints, new_recalls
ingest_vin_ret(p) == <<decoded[p].d, ret[p][1], ret[p][2]>>

NextVin == Next \/ \E p \in Callers : IngestVin(p)

SpecVin == InitVin /\ [][NextVin]_vars

----------------------------------------------------------------------------
(* Upstream responses that repeat an identity with other attributes        *)

\* the identity of RawC_Clean, padded, with other attributes
RawC_Again ==
    [RawC_Clean EXCEPT !.odiNumber = PyStr(<<"7"," ">>), !.crash = PyBool(FALSE),
        !.numberOfInjuries = PyNone, !.summary = PyStr(<<"x">>)]
\* the campaign of RawR_First under another key, with other attributes
RawR_Again ==
    [RawR_First EXCEPT !.NHTSACampaignNumber = PyNone,
        !.nhtsaCampaignNumber = PyStr(<<"R"," ">>),
        !.Consequence = PyNone, !.remedy = PyStr(<<"f","i","x">>)]

DupUpstreams ==
    { << <<RawC_Clean, RawC_Again, RawC_BadDate>>, <<RawR_First, RawR_Again, RawR_Last>> >>,
      << <<RawC_Again, RawC_Clean>>, <<RawR_Again, RawR_First>> >> }

InitDup ==
    /\ vehicles \in SeedStores
    /\ tables = TableNames
    /\ complaints = {}
    /\ recalls = {}
    /\ \E u \in DupUpstreams : upC = u[1] /\ upR = u[2]
    /\ NoCalls
    /\ nraw = NoHarness
    /\ nout = FALSE

SpecDup == InitDup /\ [][Next]_vars

----------------------------------------------------------------------------
(* The loop bodies applied to single raw records drawn from a wider domain *)

CampaignValues ==
    {PyNone, PyStr(<<>>), PyStr(<<" ">>), PyStr(<<"R">>), PyStr(<<" ","S"," ">>),
     PyInt(0), PyInt(5)}

\* what each of the three consequence keys may hold
ConsequenceValues(text) == {PyNone, PyStr(<<>>), PyStr(<<" ">>), PyStr(<<text>>)}

HarnessRecalls ==
    {[BlankRecall EXCEPT !.NHTSACampaignNumber = a, !.nhtsaCampaignNumber = b,
                         !.campaignNumber = c, !.Conequence = x,
                         !.Consequence = y, !.consequence = z] :
        a \in CampaignValues, b \in CampaignValues, c \in CampaignValues,
        x \in ConsequenceValues("x"), y \in ConsequenceValues("y"),
        z \in ConsequenceValues("z")}

OdiValues ==
    {PyNone, PyStr(<<>>), PyStr(<<" ">>), PyStr(<<" ","8"," ">>), PyInt(7), PyInt(0)}
FlagValues ==
    {PyNone, PyBool(TRUE), PyBool(FALSE), PyStr(<<"Y">>), PyStr(<<>>), PyInt(0)}
CountValues ==
    {PyNone, PyInt(2), PyStr(<<" ","3">>), PyStr(<<"x">>), PyList(<< <<"1">> >>)}
DateValues ==
    {PyNone, PyStr(<<>>),
     PyStr(<<"2","0","2","0","-","0","2","-","2","9">>),
     PyStr(<<"1","/","2","/","2","0","2","0">>),
     PyStr(<<"2","0","2","0","-","1","2","-","3","1","T","2","3",":","5","9",":","0","0">>),
     PyStr(<<"2","0","2","1","-","0","2","-","2","9">>),
     PyStr(<<"n","/","a">>),
     PyInt(20200102)}

HarnessComplaints ==
    {[BlankComplaint EXCEPT !.odiNumber = o, !.crash = f, !.fire = g,
                            !.numberOfInjuries = k, !.dateOfIncident = d] :
        o \in OdiValues, f \in FlagValues, g \in FlagValues, k \in CountValues,
        d \in DateValues}

InitNorm ==
    /\ vehicles = {SeedVehicle}
    /\ tables = TableNames
    /\ complaints = {}
    /\ recalls = {}
    /\ upC = <<>>
    /\ upR = <<>>
    /\ NoCalls
    /\ nout = FALSE
    /\ \/ \E c \in HarnessComplaints : nraw = [NoHarness EXCEPT !.which = "complaint", !.c = c]
       \/ \E r \in HarnessRecalls : nraw = [NoHarness EXCEPT !.which = "recall", !.r = r]

\* the body of the for-loop of ingest_complaints on nraw.c
NormComplaintStep ==
    /\ ~nout
    /\ nraw.which = "complaint"
    /\ nraw' = [nraw EXCEPT !.outc = NormalizeComplaint(nraw.c, SeedVehicle.id)]
    /\ nout' = TRUE
    /\ UNCHANGED <<storeVars, upC, upR, pc, args, vehicle, complaints_json,
                   recalls_json, idx, inserted, new_complaints, ret, err,
                   session, added, fetches, base, after, vinVars, tables>>

\* the body of the for-loop of ingest_recalls on nraw.r
NormRecallStep ==
    /\ ~nout
    /\ nraw.which = "recall"
    /\ nraw' = [nraw EXCEPT !.outr = NormalizeRecall(nraw.r, SeedVehicle.id)]
    /\ nout' = TRUE
    /\ UNCHANGED <<storeVars, upC, upR, pc, args, vehicle, complaints_json,
                   recalls_json, idx, inserted, new_complaints, ret, err,
                   session, added, fetches, base, after, vinVars, tables>>

NextNorm == NormComplaintStep \/ NormRecallStep

SpecNorm == InitNorm /\ [][NextNorm]_vars

----------------------------------------------------------------------------
(* Vocabulary of the properties                                            *)

\* every request call p issued was answered with a success status
AllOk(p) == \A i \in 1..Len(fetches[p]) : fetches[p][i].status = "200"

\* call p is past its first request and that request failed
ComplaintsFetchFailed(p) == fetches[p] # <<>> /\ fetches[p][1].status # "200"

\* exceptions raised while a raw record is turned into a row
NormErrors == {"ValueError", "TypeError", "AttributeError"}

\* call p takes a step
Steps(p) == pc'[p] # pc[p] \/ idx'[p] # idx[p]

\* the triple call p was given, as stored
Triple(p) == <<Upper(args[p].make), Upper(args[p].model), args[p].year>>

\* call p found no vehicle row for its triple when it started
FoundAbsent(p) ==
    pc[p] # "idle" /\ get_vehicle(base[p].v, args[p].make, args[p].model, args[p].year) = {}

\* the identities of the upstream records the loops hand to session.add
UpstreamOdis(vid) ==
    {NormalizeComplaint(upC[i], vid).row.odi_number :
        i \in {j \in 1..Len(upC) : NormalizeComplaint(upC[j], vid).kind = "row"}}
UpstreamCampaigns(vid) ==
    {NormalizeRecall(upR[i], vid).row.campaign_number :
        i \in {j \in 1..Len(upR) : NormalizeRecall(upR[j], vid).kind = "row"}}

----------------------------------------------------------------------------
(* C1: for a fixed (make, model, year) and a fixed upstream response, a    *)
(* second ingest_vehicle call made after the first one ended leaves the    *)
(* store as the first call left it and returns (0, 0).                     *)
C1_SecondCallReturnsZero ==
    \A p \in Callers : \A q \in after[p] :
        (Terminated(p) /\ args[p] = args[q] /\ AllOk(p) /\ AllOk(q))
            => (Snapshot = base[p] /\ pc[p] = "done" /\ ret[p] = <<0, 0>>)

\* the part of C1 that does not depend on the normalizer raising: the second
\* call never changes the store, and it returns (0, 0) unless a raw record
\* makes it raise
C1_StoreUnchangedBySecondCall ==
    \A p \in Callers : \A q \in after[p] :
        (args[p] = args[q] /\ AllOk(p) /\ AllOk(q))
            => /\ Snapshot = base[p]
               /\ added[p] = <<0, 0>>
               /\ (Terminated(p) /\ err[p] \notin NormErrors)
                     => (pc[p] = "done" /\ ret[p] = <<0, 0>>)

(* C2: in every reachable state no two vehicle rows share (upper-cased     *)
(* make, upper-cased model, year), no two complaint rows share odi_number, *)
(* and no two recall rows of one vehicle share campaign_number.            *)
C2_IdentityUnique ==
    /\ \A v, w \in vehicles :
          (Upper(v.make) = Upper(w.make) /\ Upper(v.model) = Upper(w.model)
           /\ v.year = w.year) => v = w
    /\ \A c, d \in complaints : c.odi_number = d.odi_number => c = d
    /\ \A r, t \in recalls :
          (r.vehicle_id = t.vehicle_id /\ r.campaign_number = t.campaign_number)
              => r = t

\* a call returned (0, 0) because every insert it attempted hit a constraint
C2_Witness ==
    \E p \in Callers :
        /\ pc[p] = "done" /\ ret[p] = <<0, 0>>
        /\ \E c \in complaints : c.vehicle_id = vehicle[p]
        /\ \E r \in recalls : r.vehicle_id = vehicle[p]

(* C3: two concurrent calls for the same triple that both find the vehicle *)
(* absent and both attempt to create it both complete, the loser re-reads  *)
(* the surviving row, and one vehicle row exists for the triple.           *)
C3_CreationRaceBothComplete ==
    \A p, q \in Callers :
        (p # q /\ FoundAbsent(p) /\ FoundAbsent(q) /\ Triple(p) = Triple(q)
         /\ pc[p] # "create" /\ pc[q] # "create")
            => /\ err[p] # "IntegrityError" /\ err[q] # "IntegrityError"
               /\ vehicle[p] = vehicle[q]
               /\ Cardinality(get_vehicle(vehicles, args[p].make, args[p].model,
                                          args[p].year)) = 1

(* C4: two calls for the same already-stored vehicle and the same upstream *)
(* response, their per-record inserts interleaved in any order: neither    *)
(* call fails, every identity is stored exactly once, and the two returned *)
(* counts sum to the rows added.                                           *)
SameStoredVehicle(p, q) ==
    /\ p # q
    /\ vehicle[p] # 0 /\ vehicle[p] = vehicle[q]
    /\ ~FoundAbsent(p) /\ ~FoundAbsent(q)
    /\ AllOk(p) /\ AllOk(q)

C4_InterleavedInsertsBothSucceed ==
    \A p, q \in Callers :
        (SameStoredVehicle(p, q) /\ Terminated(p) /\ Terminated(q))
            => /\ pc[p] = "done" /\ pc[q] = "done"
               /\ \A o \in UpstreamOdis(vehicle[p]) :
                     Cardinality({c \in complaints : c.odi_number = o}) = 1
               /\ \A k \in UpstreamCampaigns(vehicle[p]) :
                     Cardinality({r \in recalls : r.vehicle_id = vehicle[p]
                                                  /\ r.campaign_number = k}) = 1
               /\ ret[p][1] + ret[q][1] = Cardinality(complaints)
               /\ ret[p][2] + ret[q][2] = Cardinality(recalls)

\* the part of C4 that does not depend on the normalizer raising
C4_ExceptNormErrors ==
    \A p, q \in Callers :
        (SameStoredVehicle(p, q) /\ Terminated(p) /\ Terminated(q)
         /\ err[p] \notin NormErrors /\ err[q] \notin NormErrors)
            => /\ pc[p] = "done" /\ pc[q] = "done"
               /\ \A o \in UpstreamOdis(vehicle[p]) :
                     Cardinality({c \in complaints : c.odi_number = o}) = 1
               /\ \A k \in UpstreamCampaigns(vehicle[p]) :
                     Cardinality({r \in recalls : r.vehicle_id = vehicle[p]
                                                  /\ r.campaign_number = k}) = 1
               /\ ret[p][1] + ret[q][1] = Cardinality(complaints)
               /\ ret[p][2] + ret[q][2] = Cardinality(recalls)

(* C5: the pair ingest_vehicle returns is the number of complaint rows and *)
(* recall rows the call added; an insert that hits a uniqueness conflict   *)
(* is discarded without error, is not counted, and the loop goes on with   *)
(* the next record.                                                        *)
ComplaintConflict(p) ==
    /\ pc[p] = "insC"
    /\ LET n == NormalizeComplaint(complaints_json[p][idx[p]], vehicle[p])
       IN n.kind = "row" /\ ~uq_complaint_odi(complaints, n.row)

RecallConflict(p) ==
    /\ pc[p] = "insR"
    /\ LET n == NormalizeRecall(recalls_json[p][idx[p]], vehicle[p])
       IN n.kind = "row" /\ ~uq_vehicle_campaign(recalls, n.row)

C5_CountsAreRowsAdded ==
    /\ [](\A p \in Callers : pc[p] = "done" => ret[p] = added[p])
    /\ [][\A p \in Callers :
            ((ComplaintConflict(p) \/ RecallConflict(p)) /\ Steps(p))
                => /\ complaints' = complaints /\ recalls' = recalls
                   /\ inserted'[p] = inserted[p]
                   /\ idx'[p] = idx[p] + 1
                   /\ err'[p] = "none" /\ pc'[p] # "failed"]_vars

\* a call whose first complaint was already stored for another vehicle and
\* whose second complaint it inserted itself
C5_Witness ==
    \E p \in Callers :
        /\ pc[p] = "done" /\ ret[p][1] = 1
        /\ Len(complaints_json[p]) = 2
        /\ \E c \in complaints :
              /\ c.odi_number = OdiOf(complaints_json[p][1])
              /\ c.vehicle_id # vehicle[p]
        /\ \E c \in complaints :
              /\ c.odi_number = OdiOf(complaints_json[p][2])
              /\ c.vehicle_id = vehicle[p]

(* C6: when the complaints fetch fails, ingest_vehicle propagates the      *)
(* error, issues no second complaints request and no recalls request, and  *)
(* inserts no complaint or recall row.                                     *)
C6_ComplaintsFetchFailureIsFatal ==
    \A p \in Callers :
        ComplaintsFetchFailed(p)
            => /\ pc[p] = "failed"
               /\ err[p] \in {"Timeout", "HTTPError"}
               /\ Len(fetches[p]) = 1
               /\ added[p] = <<0, 0>>
               /\ complaints_json[p] = <<>> /\ recalls_json[p] = <<>>

\* a call ended by a failed complaints fetch while the other one stored rows
C6_Witness ==
    \E p \in Callers :
        /\ ComplaintsFetchFailed(p)
        /\ fetches[p][1].status = "503"
        /\ complaints # {} /\ recalls # {}

(* C7: a failure partway through a call leaves every row committed before  *)
(* it in the store: the failing step removes nothing, and no later step    *)
(* removes a row.                                                          *)
C7_NoRollbackOnFailure ==
    [][/\ \A p \in Callers :
            (pc[p] # "failed" /\ pc'[p] = "failed")
                => (vehicles' = vehicles /\ complaints' = complaints
                    /\ recalls' = recalls)
       /\ vehicles \subseteq vehicles'
       /\ complaints \subseteq complaints'
       /\ recalls \subseteq recalls']_vars

\* a call that created its vehicle, inserted a complaint and then failed at
\* the recalls fetch; the rows are in the store
C7_Witness ==
    \E p \in Callers :
        /\ pc[p] = "failed"
        /\ Len(fetches[p]) = 2 /\ fetches[p][2].status = "timeout"
        /\ FoundAbsent(p)
        /\ added[p][1] >= 1
        /\ \E v \in vehicles : v.id = vehicle[p]
        /\ \E c \in complaints : c.vehicle_id = vehicle[p] /\ c \notin base[p].c

(* C8: processing a raw record whose identity field is present never       *)
(* raises, whatever its optional fields hold; ingest_vehicle does not fail *)
(* because of it.                                                          *)
C8_NormalizerNeverRaises ==
    \A p \in Callers : err[p] \notin NormErrors

(* C9: a raw complaint with no identifier after trimming, and a raw recall *)
(* with no campaign number under any key, is skipped: no row, no error,    *)
(* the count unchanged, and the loop goes on to the next record.           *)
NoOdi(p) ==
    /\ pc[p] = "insC"
    /\ Strip(PyStrOf(PyOr(complaints_json[p][idx[p]].odiNumber, PyStr(<<>>)))) = <<>>

NoCampaign(p) ==
    /\ pc[p] = "insR"
    /\ LET r == recalls_json[p][idx[p]]
       IN ~Truthy(r.NHTSACampaignNumber) /\ ~Truthy(r.nhtsaCampaignNumber)
          /\ ~Truthy(r.campaignNumber)

C9_IdentitylessRecordSkipped ==
    [][\A p \in Callers :
         ((NoOdi(p) \/ NoCampaign(p)) /\ Steps(p))
            => /\ storeVars' = storeVars
               /\ inserted'[p] = inserted[p]
               /\ idx'[p] = idx[p] + 1
               /\ err'[p] = "none" /\ pc'[p] # "failed"
               /\ added'[p] = added[p]]_vars

\* a call that skipped an identifier-less complaint and inserted the next one
C9_Witness ==
    \E p \in Callers :
        /\ pc[p] = "done" /\ ret[p][1] = 1 /\ added[p][1] = 1
        /\ Len(complaints_json[p]) = 2
        /\ complaints_json[p][1].odiNumber = PyStr(<<" ">>)

(* C10: the campaign number is the first non-empty value among the keys    *)
(* NHTSACampaignNumber, nhtsaCampaignNumber, campaignNumber, and a record  *)
(* is skipped only when none of the three holds a non-empty value.         *)
HasText(v) == v.t = "str" /\ Strip(v.s) # <<>>

C10_FirstNonEmptyKeyWins ==
    (nout /\ nraw.which = "recall")
        => LET r == nraw.r
               keys == <<r.NHTSACampaignNumber, r.nhtsaCampaignNumber, r.campaignNumber>>
               hits == {i \in 1..3 : HasText(keys[i])}
           IN IF hits = {} THEN nraw.outr.kind = "skip"
              ELSE /\ nraw.outr.kind = "row"
                   /\ nraw.outr.row.campaign_number
                        = Strip(keys[CHOOSE i \in hits : \A j \in hits : i <= j].s)

(* C11: decode_vin on an input whose trimmed length is not 17 returns the  *)
(* decode failure without any request; on an input of trimmed length 17 it *)
(* makes exactly one request, for the input trimmed and upper-cased.       *)
C11_VinLengthGate ==
    \A p \in Callers :
        decoded[p].kind # "unset"
            => LET t == Strip(PyOr(vin[p], PyStr(<<>>)).s)
               IN IF Len(t) # 17
                  THEN decoded[p].kind = "none" /\ decoded[p].sent = <<>>
                  ELSE /\ Len(decoded[p].sent) = 1
                       /\ decoded[p].sent[1].vin = Upper(t)

\* one call was refused for a 16-character VIN, another sent a padded
\* lower-case VIN to the service
C11_Witness ==
    \E p, q \in Callers :
        /\ vin[p] = PyStr(SubSeq(Vin17, 1, 16))
        /\ decoded[p].kind = "none" /\ decoded[p].sent = <<>>
        /\ vin[q] = PyStr(<<" ">> \o Vin17Lower \o <<"\n">>)
        /\ Len(decoded[q].sent) = 1 /\ decoded[q].sent[1].vin = Vin17

(* C12: decode_vin comes to the decode failure it returns for a VIN of the *)
(* wrong length when the request to the decode service fails or is         *)
(* answered with an empty result list.                                     *)
C12_ServiceErrorIsDecodeFailure ==
    \A p \in Callers :
        (decoded[p].sent # <<>>
         /\ (decoded[p].sent[1].status # "200" \/ decoded[p].sent[1].empty))
            => decoded[p].kind = "none"

(* C13: when decoding fails, ingest_vin fails with an error, requests      *)
(* neither complaints nor recalls, opens no session and writes no row: the *)
(* step leaves the store as it was.                                        *)
C13_DecodeFailureStopsIngest ==
    /\ [](\A p \in Callers :
            decoded[p].kind \in {"none", "raise"}
                => /\ pc[p] = "failed"
                   /\ err[p] = IF decoded[p].kind = "none" THEN "ValueError"
                               ELSE decoded[p].exc
                   /\ fetches[p] = <<>>
                   /\ complaints_json[p] = <<>> /\ recalls_json[p] = <<>>
                   /\ vehicle[p] = 0 /\ session[p] = "none"
                   /\ added[p] = <<0, 0>>)
    /\ [][\A p \in Callers :
            (decoded'[p] # decoded[p] /\ decoded'[p].kind # "dict")
                => storeVars' = storeVars]_vars

\* a VIN the service had no result for, refused while another call had
\* already filled the store
C13_Witness ==
    \E p, q \in Callers :
        /\ decoded[p].kind = "none" /\ decoded[p].sent # <<>>
        /\ pc[p] = "failed"
        /\ pc[q] = "done" /\ complaints # {} /\ recalls # {}

(* C15: every successful decode_vin result has a non-empty trimmed make, a *)
(* non-empty trimmed model and a year >= 1; a model-year string that is    *)
(* not a positive integer, "0" included, is a decode failure.              *)
C15_DecodedYearPositive ==
    \A p \in Callers :
        decoded[p].kind = "dict"
            => /\ decoded[p].d.make # <<>> /\ Strip(decoded[p].d.make) = decoded[p].d.make
               /\ decoded[p].d.model # <<>> /\ Strip(decoded[p].d.model) = decoded[p].d.model
               /\ decoded[p].d.year >= 1

(* C14: every ingest_vehicle call releases its session on every exit path: *)
(* a terminated call has closed the session it opened, whether it returned *)
(* or failed at a fetch, at the vehicle or at a record; a session is open  *)
(* only while its call is running.                                         *)
C14_SessionReleased ==
    \A p \in Callers :
        /\ Terminated(p) => session[p] = "closed"
        /\ session[p] = "open"
              <=> pc[p] \in {"create", "fetchC", "insC", "fetchR", "insR"}

\* one call failed while inserting a recall, the other at its recalls fetch
C14_Witness ==
    \E p, q \in Callers :
        /\ pc[p] = "failed" /\ err[p] = "TypeError" /\ session[p] = "closed"
        /\ pc[q] = "failed" /\ err[q] = "Timeout" /\ Len(fetches[q]) = 2
        /\ session[q] = "closed"

(* C16: resolve-or-create on a triple that exists (make and model compared *)
(* upper-cased) returns the id of the existing row and adds nothing; on an *)
(* absent triple it adds exactly one row, with make and model upper-cased, *)
(* and returns its id; no step changes or removes a vehicle row.           *)
SameTriple(v, a) ==
    Upper(v.make) = Upper(a.make) /\ Upper(v.model) = Upper(a.model) /\ v.year = a.year

C16_ResolveOrCreate ==
    [][\A p \in Callers :
         /\ args'[p] # args[p]
               => /\ vehicles' = vehicles
                  /\ (\E v \in vehicles : SameTriple(v, args'[p]))
                        => /\ pc'[p] = "fetchC"
                           /\ \E v \in vehicles :
                                 SameTriple(v, args'[p]) /\ vehicle'[p] = v.id
                  /\ (\A v \in vehicles : ~SameTriple(v, args'[p]))
                        => pc'[p] = "create" /\ vehicle'[p] = 0
         /\ (pc[p] = "create" /\ pc'[p] # "create"
             /\ \A v \in vehicles : ~SameTriple(v, args[p]))
               => \E row \in vehicles' :
                     /\ vehicles' = vehicles \cup {row}
                     /\ \A v \in vehicles : v.id # row.id
                     /\ row.make = Upper(args[p].make)
                     /\ row.model = Upper(args[p].model)
                     /\ row.year = args[p].year
                     /\ vehicle'[p] = row.id
                     /\ pc'[p] = "fetchC"
         /\ vehicles \subseteq vehicles']_vars

\* a call given 'honda', 'accord' created the row HONDA ACCORD 2021 in an
\* empty store and a later call given the same triple resolved to that row
C16_Witness ==
    \E p, q \in Callers :
        /\ base[p].v = {} /\ FoundAbsent(p) /\ vehicle[p] = SeedVehicle.id
        /\ args[p].make = <<"h","o","n","d","a">>
        /\ args[q] = args[p] /\ ~FoundAbsent(q) /\ pc[q] # "idle"
        /\ vehicle[q] = vehicle[p]
        /\ vehicles = {SeedVehicle}

(* C17: stored complaint and recall rows are immutable: no step changes an *)
(* attribute of a stored row, its vehicle reference included, or deletes a *)
(* row; an insert of a record whose identity is already stored, with other *)
(* attributes or for another vehicle, leaves the table as it was.          *)
C17_StoredRowsImmutable ==
    [][/\ \A c \in complaints :
             \E d \in complaints' : d.odi_number = c.odi_number /\ d = c
       /\ \A r \in recalls :
             \E t \in recalls' :
                /\ t.vehicle_id = r.vehicle_id
                /\ t.campaign_number = r.campaign_number
                /\ t = r
       /\ \A p \in Callers :
             (ComplaintConflict(p) /\ Steps(p)) => complaints' = complaints
       /\ \A p \in Callers :
             (RecallConflict(p) /\ Steps(p)) => recalls' = recalls]_vars

\* two calls for different vehicles went through both lists; complaint 7
\* and recall R of the first carry the attributes of their first occurrence
C17_Witness ==
    \E p, q \in Callers :
        /\ pc[p] = "done" /\ pc[q] = "done" /\ vehicle[p] # vehicle[q]
        /\ complaints_json[p][1] = RawC_Clean /\ complaints_json[p][2] = RawC_Again
        /\ \E c \in complaints :
              /\ c.odi_number = <<"7">> /\ c.vehicle_id = vehicle[p]
              /\ c.crash = PyBool(TRUE) /\ c.summary = PyNone
        /\ Cardinality({c \in complaints : c.odi_number = <<"7">>}) = 1
        /\ \E r \in recalls :
              /\ r.campaign_number = <<"R">> /\ r.vehicle_id = vehicle[p]
              /\ r.consequence = PyStr(<<"f","i","r","e">>) /\ r.remedy = PyNone

(* C18: complaint identity is global: when a complaint number stored under *)
(* vehicle A appears in the response of an ingest for another vehicle B,   *)
(* the insert is discarded without error and without being counted, the    *)
(* loop goes on, and the complaint stays attached to A only.               *)
ForeignComplaint(p) ==
    /\ pc[p] = "insC"
    /\ LET n == NormalizeComplaint(complaints_json[p][idx[p]], vehicle[p])
       IN /\ n.kind = "row"
          /\ \E c \in complaints :
                c.odi_number = n.row.odi_number /\ c.vehicle_id # vehicle[p]

C18_ComplaintIdentityGlobal ==
    /\ [](/\ \A c, d \in complaints :
                c.odi_number = d.odi_number => c.vehicle_id = d.vehicle_id
          /\ \A p \in Callers : err[p] = "IntegrityError" => vehicle[p] = 0)
    /\ [][\A p \in Callers :
            (ForeignComplaint(p) /\ Steps(p))
                => /\ complaints' = complaints
                   /\ inserted'[p] = inserted[p]
                   /\ added'[p] = added[p]
                   /\ idx'[p] = idx[p] + 1
                   /\ err'[p] = "none" /\ pc'[p] # "failed"]_vars

\* a call for another vehicle returned (0, 0) although its complaints
\* response held a record: the complaint belongs to the first vehicle
C18_Witness ==
    \E p, q \in Callers :
        /\ pc[p] = "done" /\ pc[q] = "done" /\ vehicle[p] # vehicle[q]
        /\ Len(complaints_json[q]) = 1 /\ ret[q] = <<0, 0>> /\ ret[p] = <<1, 0>>
        /\ \E c \in complaints :
              c.odi_number = OdiOf(complaints_json[q][1]) /\ c.vehicle_id = vehicle[p]
        /\ \A c \in complaints : c.vehicle_id # vehicle[q]

(* C19: recall identity is per vehicle: the same campaign number ingested  *)
(* under two vehicles is stored and counted once for each of them, and a   *)
(* second insert of a campaign number for the same vehicle is discarded    *)
(* and not counted.                                                        *)
RecallRows(vid, k) ==
    {r \in recalls : r.vehicle_id = vid /\ r.campaign_number = k}

C19_RecallIdentityPerVehicle ==
    \A p, q \in Callers :
        (p # q /\ pc[p] = "done" /\ pc[q] = "done")
            => /\ \A k \in UpstreamCampaigns(vehicle[p]) :
                     /\ Cardinality(RecallRows(vehicle[p], k)) = 1
                     /\ Cardinality(RecallRows(vehicle[q], k)) = 1
               /\ IF vehicle[p] # vehicle[q]
                  THEN /\ ret[p][2] = Cardinality(UpstreamCampaigns(vehicle[p]))
                       /\ ret[q][2] = Cardinality(UpstreamCampaigns(vehicle[q]))
                  ELSE ret[p][2] + ret[q][2] = Cardinality(UpstreamCampaigns(vehicle[p]))

\* the recalls response lists campaign R twice; each of two vehicles got
\* one row for it and each call counted one
C19_Witness ==
    \E p, q \in Callers :
        /\ pc[p] = "done" /\ pc[q] = "done" /\ vehicle[p] # vehicle[q]
        /\ Len(recalls_json[p]) = 2
        /\ UpstreamCampaigns(vehicle[p]) = {<<"R">>}
        /\ ret[p][2] = 1 /\ ret[q][2] = 1
        /\ Cardinality(RecallRows(vehicle[p], <<"R">>)) = 1
        /\ Cardinality(RecallRows(vehicle[q], <<"R">>)) = 1

(* C20: within one ingest_vehicle call the steps happen in the order       *)
(* schema and vehicle lookup, vehicle creation, complaints fetch,          *)
(* complaint inserts, recalls fetch, recall inserts, return, each at most  *)
(* once; no fetch is repeated, and the recalls fetch happens only after    *)
(* every complaint of the batch has been processed.                        *)
StepsAllowed ==
    [idle    |-> {"create", "fetchC", "failed"},
     decoded |-> {"create", "fetchC", "failed"},
     create  |-> {"fetchC", "failed"},
     fetchC  |-> {"insC", "fetchR", "failed"},
     insC    |-> {"insC", "fetchR", "failed"},
     fetchR  |-> {"insR", "done", "failed"},
     insR    |-> {"insR", "done", "failed"},
     done    |-> {},
     failed  |-> {}]

C20_SinglePassInOrder ==
    /\ [](\A p \in Callers :
            /\ Len(fetches[p]) <= 2
            /\ \A i \in 1..Len(fetches[p]) :
                  fetches[p][i].api = IF i = 1 THEN "complaints" ELSE "recalls"
            /\ pc[p] = "done" => Len(fetches[p]) = 2)
    /\ [][\A p \in Callers :
            /\ Steps(p) => pc'[p] \in StepsAllowed[pc[p]]
            /\ fetches'[p] # fetches[p]
                  => /\ pc[p] \in {"fetchC", "fetchR"}
                     /\ Len(fetches'[p]) = Len(fetches[p]) + 1
                     /\ pc[p] = "fetchR" => idx[p] = Len(complaints_json[p]) + 1
            /\ (Steps(p) /\ pc[p] = "insC" /\ pc'[p] = "insC") => idx'[p] = idx[p] + 1
            /\ (Steps(p) /\ pc[p] = "insR" /\ pc'[p] = "insR") => idx'[p] = idx[p] + 1
            /\ (pc[p] = "insC" /\ pc'[p] = "fetchR") => idx[p] = Len(complaints_json[p])
            /\ (pc[p] = "insR" /\ pc'[p] = "done") => idx[p] = Len(recalls_json[p])
            /\ (pc[p] # "idle") => args'[p] = args[p] /\ base'[p] = base[p]]_vars

\* a call that created its vehicle, fetched and inserted two complaints,
\* then fetched the recalls and returned
C20_Witness ==
    \E p \in Callers :
        /\ pc[p] = "done" /\ FoundAbsent(p) /\ vehicle[p] # 0
        /\ Len(complaints_json[p]) = 2 /\ ret[p] = <<2, 0>>
        /\ Len(fetches[p]) = 2
        /\ fetches[p][1].api = "complaints" /\ fetches[p][2].api = "recalls"

(* C21: after a successful decode, ingest_vin is ingest_vehicle called     *)
(* with the decoded make, model and year: it resolves the vehicle of that  *)
(* triple, returns the counts of the rows its inserts added together with  *)
(* the decoded record, and a call of either kind made after a call of the  *)
(* other kind for the same triple finds nothing left to store.             *)
ViaVin(p) == decoded[p].kind = "dict" /\ pc[p] # "decoded"

C21_IngestVinDelegates ==
    /\ \A p \in Callers :
          ViaVin(p)
            => /\ args[p] = [make |-> decoded[p].d.make, model |-> decoded[p].d.model,
                              year |-> decoded[p].d.year]
               /\ vehicle[p] # 0
                     => \E v \in vehicles :
                           /\ v.id = vehicle[p]
                           /\ v.make = Upper(decoded[p].d.make)
                           /\ v.model = Upper(decoded[p].d.model)
                           /\ v.year = decoded[p].d.year
               /\ pc[p] = "done"
                     => ingest_vin_ret(p) = <<decoded[p].d, added[p][1], added[p][2]>>
    /\ \A p, q \in Callers :
          (q \in after[p] /\ ViaVin(p) # ViaVin(q) /\ Triple(p) = Triple(q)
           /\ pc[q] = "done" /\ AllOk(p))
            => /\ Snapshot.c = base[p].c /\ Snapshot.r = base[p].r
               /\ pc[p] = "done" => ret[p] = <<0, 0>>

\* a VIN decoded to (honda, Accord, 2021) was ingested and returned (1, 1);
\* a later ingest_vehicle('honda', 'accord', 2021) returned (0, 0)
C21_Witness ==
    \E p, q \in Callers :
        /\ ViaVin(p) /\ pc[p] = "done" /\ ret[p] = <<1, 1>>
        /\ decoded[p].d.make = <<"h","o","n","d","a">> /\ decoded[p].d.year = 2021
        /\ ~ViaVin(q) /\ p \in after[q] /\ pc[q] = "done" /\ ret[q] = <<0, 0>>
        /\ vehicle[q] = vehicle[p]

(* C22: init_db is additive and idempotent: the call every ingest_vehicle  *)
(* starts with leaves every existing row of every table as it was, only    *)
(* adds missing tables, and applying it again changes nothing more.        *)
RowsOf(name) ==
    CASE name = "vehicles" -> vehicles
      [] name = "complaints" -> complaints
      [] OTHER -> recalls

C22_InitDbAdditive ==
    /\ [](\A name \in TableNames :
            /\ RowsOf(name) # {} => name \in tables
            /\ init_db(create_all(tables), name, init_db(tables, name, RowsOf(name)))
                  = init_db(tables, name, RowsOf(name))
            /\ create_all(create_all(tables)) = create_all(tables))
    /\ [][\A p \in Callers :
            args'[p] # args[p]
                => /\ vehicles' = vehicles /\ complaints' = complaints
                   /\ recalls' = recalls
                   /\ tables \subseteq tables' /\ tables' = TableNames]_vars

\* a call started, and so ran init_db, on a store that held a vehicle, a
\* complaint and a recall left by an earlier call; the rows are still there
C22_Witness ==
    \E p, q \in Callers :
        /\ q \in after[p] /\ pc[q] = "done" /\ pc[p] # "idle"
        /\ base[p].v # {} /\ base[p].c # {} /\ base[p].r # {}
        /\ base[p].v \subseteq vehicles /\ base[p].c \subseteq complaints
        /\ base[p].r \subseteq recalls

(* C23: severity is stored tri-state and undefaulted: a crash or fire flag *)
(* that is present is stored true when truthy and false when falsy, an     *)
(* absent one is stored unknown; an absent injury or death count is stored *)
(* unset, not 0, and severity_summary counts it as 0.                      *)
Stored(flag) ==
    IF flag.t = "none" THEN PyNone
    ELSE IF Truthy(flag) THEN PyBool(TRUE) ELSE PyBool(FALSE)

C23_SeverityTriState ==
    (nout /\ nraw.which = "complaint" /\ nraw.outc.kind = "row")
        => LET r == nraw.c
               row == nraw.outc.row
               sev == severity_summary({row}, row.vehicle_id)
           IN /\ row.crash = Stored(r.crash) /\ row.fire = Stored(r.fire)
              /\ r.crash.t = "none" => row.crash # PyBool(FALSE)
              /\ r.numberOfInjuries.t = "none"
                    => (row.number_of_injuries = PyNone /\ sev.injuries = 0)
              /\ r.numberOfDeaths.t = "none"
                    => (row.number_of_deaths = PyNone /\ sev.deaths = 0)
              /\ r.numberOfInjuries.t # "none"
                    => sev.injuries = row.number_of_injuries.n
              /\ sev.crashes = IF r.crash.t # "none" /\ Truthy(r.crash) THEN 1 ELSE 0
              /\ sev.fires = IF r.fire.t # "none" /\ Truthy(r.fire) THEN 1 ELSE 0

\* a record with the crash flag absent, the fire flag present and falsy and
\* no injury count became a row
C23_Witness ==
    /\ nout /\ nraw.which = "complaint" /\ nraw.outc.kind = "row"
    /\ nraw.c.crash = PyNone /\ nraw.c.fire = PyInt(0)
    /\ nraw.c.numberOfInjuries = PyNone
    /\ nraw.outc.row.crash = PyNone /\ nraw.outc.row.fire = PyBool(FALSE)
    /\ nraw.outc.row.number_of_injuries = PyNone

(* C24: the consequence of a recall is the first non-empty value among the *)
(* keys Conequence, Consequence, consequence, in that order; it is None    *)
(* only if none of the three holds a non-empty value, and then the row     *)
(* carries no consequence text.                                            *)
C24_ConsequencePriority ==
    (nout /\ nraw.which = "recall" /\ nraw.outr.kind = "row")
        => LET r == nraw.r
               keys == <<r.Conequence, r.Consequence, r.consequence>>
               hits == {i \in 1..3 : keys[i].t # "none" /\ keys[i] # PyStr(<<>>)}
               stored == nraw.outr.row.consequence
           IN /\ hits # {}
                    => stored = keys[CHOOSE i \in hits : \A j \in hits : i <= j]
              /\ stored = PyNone => hits = {}
              /\ hits = {} => stored \in {PyNone, PyStr(<<>>)}

\* a record with the misspelled key empty, the capitalized key absent and
\* the text under the lower-case key
C24_Witness ==
    /\ nout /\ nraw.which = "recall" /\ nraw.outr.kind = "row"
    /\ nraw.r.Conequence = PyStr(<<>>) /\ nraw.r.Consequence = PyNone
    /\ nraw.r.consequence = PyStr(<<"z">>)
    /\ nraw.outr.row.consequence = PyStr(<<"z">>)

(* C25: the vehicle row is committed before any fetch: a call that has     *)
(* issued a request has its vehicle row in the store; after a call for a   *)
(* new triple whose complaints fetch failed, the row it created is in the  *)
(* store, without complaints or recalls unless another call for the triple *)
(* added them, and a later call for the triple resolves to the same id.    *)
VehicleRow(p) == {v \in vehicles : v.id = vehicle[p]}

C25_VehicleSurvivesFetchFailure ==
    \A p \in Callers :
        /\ fetches[p] # <<>>
              => \E v \in VehicleRow(p) :
                    <<v.make, v.model, v.year>> = Triple(p)
        /\ (FoundAbsent(p) /\ ComplaintsFetchFailed(p))
              => /\ pc[p] = "failed"
                 /\ VehicleRow(p) # {} /\ VehicleRow(p) \cap base[p].v = {}
                 /\ added[p] = <<0, 0>>
                 /\ (\A q \in Callers \ {p} : vehicle[q] # vehicle[p])
                       => /\ \A c \in complaints : c.vehicle_id # vehicle[p]
                          /\ \A r \in recalls : r.vehicle_id # vehicle[p]
                 /\ \A q \in Callers :
                       (p \in after[q] /\ Triple(q) = Triple(p))
                           => /\ ~FoundAbsent(q)
                              /\ vehicle[q] = vehicle[p]
                              /\ vehicles = base[q].v

\* a call created the vehicle and failed at its complaints fetch; a later
\* call for the triple resolved to that row and stored one complaint and
\* one recall
C25_Witness ==
    \E p, q \in Callers :
        /\ FoundAbsent(p) /\ ComplaintsFetchFailed(p) /\ pc[p] = "failed"
        /\ p \in after[q] /\ Triple(q) = Triple(p)
        /\ vehicle[q] = vehicle[p]
        /\ pc[q] = "done" /\ ret[q] = <<1, 1>>

(* C26: in every reachable state each stored complaint and each stored     *)
(* recall references a vehicle row that is in the store.                   *)
C26_ChildrenReferenceVehicles ==
    /\ \A c \in complaints : \E v \in vehicles : v.id = c.vehicle_id
    /\ \A r \in recalls : \E v \in vehicles : v.id = r.vehicle_id

\* two vehicles, the first with a complaint and a recall, the second with
\* a recall of its own
C26_Witness ==
    /\ Cardinality(vehicles) = 2
    /\ \E v, w \in vehicles :
          /\ v # w
          /\ \E c \in complaints : c.vehicle_id = v.id
          /\ \E r \in recalls : r.vehicle_id = v.id
          /\ \E r \in recalls : r.vehicle_id = w.id

(* C27: when one response repeats an identity, the stored row carries the  *)
(* attributes of the first occurrence in list order, later occurrences are *)
(* discarded, the records after a discarded duplicate are still inserted,  *)
(* and a call running alone returns the number of distinct identities.     *)
FirstComplaint(k) ==
    upC[CHOOSE i \in 1..Len(upC) :
          /\ OdiOf(upC[i]) = k
          /\ \A j \in 1..(i - 1) : OdiOf(upC[j]) # k]

FirstRecall(k) ==
    upR[CHOOSE i \in 1..Len(upR) :
          /\ Strip(CampaignOf(upR[i]).s) = k
          /\ \A j \in 1..(i - 1) : Strip(CampaignOf(upR[j]).s) # k]

C27_FirstOccurrenceWins ==
    /\ \A c \in complaints :
          c = [NormalizeComplaint(FirstComplaint(c.odi_number), c.vehicle_id).row
                 EXCEPT !.id = c.id]
    /\ \A r \in recalls :
          r = [NormalizeRecall(FirstRecall(r.campaign_number), r.vehicle_id).row
                 EXCEPT !.id = r.id]
    /\ \A p \in Callers :
          pc[p] = "done"
            => /\ \A k \in UpstreamOdis(vehicle[p]) :
                     Cardinality({c \in complaints : c.odi_number = k}) = 1
               /\ \A k \in UpstreamCampaigns(vehicle[p]) :
                     Cardinality(RecallRows(vehicle[p], k)) = 1
               /\ (\A q \in Callers \ {p} : pc[q] = "idle")
                     => ret[p] = <<Cardinality(UpstreamOdis(vehicle[p])),
                                   Cardinality(UpstreamCampaigns(vehicle[p]))>>

\* a call running alone went through three complaints and three recalls,
\* the second of each repeating the first: it returned (2, 2), complaint 7
\* has the attributes of its first occurrence and complaint 8 is stored
C27_Witness ==
    \E p \in Callers :
        /\ pc[p] = "done" /\ \A q \in Callers \ {p} : pc[q] = "idle"
        /\ Len(complaints_json[p]) = 3 /\ Len(recalls_json[p]) = 3
        /\ ret[p] = <<2, 2>>
        /\ \E c \in complaints : c.odi_number = <<"7">> /\ c.crash = PyBool(TRUE)
        /\ \E c \in complaints : c.odi_number = <<"8">>
        /\ \E r \in recalls :
              r.campaign_number = <<"R">> /\ r.consequence = PyStr(<<"f","i","r","e">>)
        /\ \E r \in recalls : r.campaign_number = <<"S">>

====
